---- MODULE Spec2Model ----
(***************************************************************************)
(* mopidy_client.client.Client: the JSON-RPC-over-WebSocket client.        *)
(*                                                                         *)
(* One asyncio event loop runs everything, so every action below is the    *)
(* code between two suspension points (await) of one coroutine or one      *)
(* synchronous callback.  The server and the user of the library are the   *)
(* environment: frames, connect outcomes and API calls are drawn from      *)
(* small sets.  An event handler is any callable: the call made by         *)
(* dispatch either raises or returns the coroutine that gather awaits.     *)
(***************************************************************************)
EXTENDS Integers, Sequences, FiniteSets, TLC

\* ------------------------------------------------------------------ bounds
MaxCalls == 2        \* request ids issued per run
MaxTransports == 2   \* websocket connections opened per run
MaxConnTasks == 2    \* _connect coroutines in flight at once
MaxDispatch == 2     \* dispatch tasks in flight at once
MaxSubs == 3         \* subscriptions a client makes per run
MaxRetries == 2      \* largest `retries` constructor argument tried

DefaultRetries == 3  \* Client.__init__(..., retries=3)

\* ------------------------------------------------------------------ inputs
Events == {"seeked"}
Handlers == {"h1", "h2"}
Payloads == {"p", "q"}
KwArgs == {"kw"}            \* keyword arguments given to connect()
NoArgs == "none"            \* the {} __init__ stores in _connect_args
NoPayload == "null"

VARIABLES
    message,         \* the dict json.loads returns in on_message, where the
                     \* server sends one and the same text all along
    msg_id,          \* Client._msg_id, the class attribute
    auto_reconnect,  \* client -> self._auto_reconnect
    retries,         \* client -> self._retries
    connected,       \* client -> self._connected
    connect_args,    \* client -> self._connect_args
    ws,              \* client -> self._ws (0: the attribute is not set yet)
    req,             \* client -> keys of self._req (the future is calls[id])
    listeners,       \* client -> [event -> list of handlers]
    unsubs,          \* client -> the unsub closures on_event has returned,
                     \* in the order of the subscriptions that made them
    transports,      \* the state of every websocket connection opened
    ctasks,          \* the _connect coroutines in flight
    dtasks,          \* the dispatch tasks in flight
    calls,           \* the call() invocations that got an id, by id
    last             \* the step just taken: operation, input and outcome

vars == <<message, msg_id, auto_reconnect, retries, connected, connect_args, ws, req,
          listeners, unsubs, transports, ctasks, dtasks, calls, last>>

Clients == DOMAIN auto_reconnect

\* ------------------------------------------------------------------ frames
ReplyKinds == {"result", "error", "errbad", "noresult"}

\* What the server can put on the wire.  Ids range over the issued ones and
\* one more, so that a reply to a request nobody made is among them.
\*   result    {"jsonrpc": "2.0", "id": id, "result": val}
\*   error     {"jsonrpc": "2.0", "id": id, "error": {code, message, data}}
\*   errbad    the same with an error object that has no data.traceback
\*   noresult  {"jsonrpc": "2.0", "id": id}
\*   noid      {"jsonrpc": "2.0"}
\*   event     {"event": ev, ...}
\*   unknown   JSON with neither "jsonrpc" nor "event"
\*   unparsable  text that is not JSON
Frames ==
    [kind : {"result", "error"}, id : 1..(MaxCalls + 1), val : Payloads,
     ev : {"none"}, data : {{}}]
    \cup [kind : {"errbad", "noresult"}, id : 1..(MaxCalls + 1),
          val : {NoPayload}, ev : {"none"}, data : {{}}]
    \cup [kind : {"event"}, id : {0}, val : {NoPayload}, ev : Events,
          data : {{}}]
    \cup [kind : {"noid", "unknown", "unparsable"}, id : {0},
          val : {NoPayload}, ev : {"none"}, data : {{}}]

\* The JSON objects json.loads can return, by the keys they have: whether
\* "jsonrpc" is there, the "id" (0: no such key), the "error" object (bare:
\* one without data.traceback), the "result", the "event" name, and whether
\* there is a further field.
Messages ==
    [jsonrpc : BOOLEAN, id : 0..(MaxCalls + 1),
     error : {"absent", "bare"} \cup Payloads,
     result : {"absent", NoPayload} \cup Payloads,
     event : {"none"} \cup Events, extra : BOOLEAN]

\* {}
EmptyDict ==
    [jsonrpc |-> FALSE, id |-> 0, error |-> "absent", result |-> "absent",
     event |-> "none", extra |-> FALSE]

\* The keys of the dict.
Keys(m) ==
    (IF m.jsonrpc THEN {"jsonrpc"} ELSE {})
    \cup (IF m.id # 0 THEN {"id"} ELSE {})
    \cup (IF m.error # "absent" THEN {"error"} ELSE {})
    \cup (IF m.result # "absent" THEN {"result"} ELSE {})
    \cup (IF m.event # "none" THEN {"event"} ELSE {})
    \cup (IF m.extra THEN {"extra"} ELSE {})

\* A classification that looks for "result" before "error".
KindOfResultFirst(m) ==
    IF "jsonrpc" \in Keys(m)
    THEN IF "id" \in Keys(m)
         THEN IF "result" \in Keys(m) THEN "result"
              ELSE IF "error" \in Keys(m)
              THEN (IF m.error = "bare" THEN "errbad" ELSE "error")
              ELSE "noresult"
         ELSE "noid"
    ELSE IF "event" \in Keys(m) THEN "event"
    ELSE "unknown"

\* The branch of lines 188-214 that a message takes.
KindOf(m) ==
    IF "jsonrpc" \in Keys(m)
    THEN IF "id" \in Keys(m)
         THEN IF "error" \in Keys(m)
              THEN (IF m.error = "bare" THEN "errbad" ELSE "error")
              ELSE IF "result" \in Keys(m) THEN "result"
              ELSE "noresult"
         ELSE "noid"
    ELSE IF "event" \in Keys(m) THEN "event"
    ELSE "unknown"

\* event = message.pop("event"): what is left of the dict is the data.
EventData(m) == Keys(m) \ {"event"}

\* What on_message uses of a message: its branch and what the branch reads.
FrameOf(m) ==
    LET kind == KindOf(m)
    IN  [kind |-> kind,
         id |-> IF kind \in ReplyKinds THEN m.id ELSE 0,
         val |-> IF kind = "error" THEN m.error
                 ELSE IF kind = "result" THEN m.result
                 ELSE NoPayload,
         ev |-> IF kind = "event" THEN m.event ELSE "none",
         data |-> IF kind = "event" THEN EventData(m) ELSE {}]

\* The record kept in `last`: the operation, the client, what came in (the
\* frame's kind, id and payload, or what websocket_connect did), what came
\* out, a count, and the handler or event concerned.
Step(op, c, kind, id, val, out, n) ==
    [op |-> op, c |-> c, kind |-> kind, id |-> id, val |-> val, out |-> out,
     n |-> n, h |-> "none"]

NoStep == Step("init", 0, "none", 0, NoPayload, "none", 0)

\* ------------------------------------------------------------------ helpers
RemoveAt(s, k) == [j \in 1..(Len(s) - 1) |-> IF j < k THEN s[j] ELSE s[j + 1]]

\* list.remove(x): drops the first occurrence.
RECURSIVE IndexOf(_, _, _)
IndexOf(s, x, k) ==
    IF k > Len(s) THEN 0
    ELSE IF s[k] = x THEN k
    ELSE IndexOf(s, x, k + 1)

ListRemove(s, x) == RemoveAt(s, IndexOf(s, x, 1))

Range(s) == {s[k] : k \in DOMAIN s}

\* ------------------------------------------------------------------ Init
\* Client.__init__ for every client in cs, the class counter at 0.
InitWith(cs) ==
    /\ message = EmptyDict
    /\ msg_id = 0
    /\ auto_reconnect \in [cs -> BOOLEAN]
    /\ retries \in [cs -> 0..MaxRetries]
    /\ connected = [c \in cs |-> FALSE]
    /\ connect_args = [c \in cs |-> NoArgs]
    /\ ws = [c \in cs |-> 0]
    /\ req = [c \in cs |-> {}]
    /\ listeners = [c \in cs |-> [e \in Events |-> <<>>]]
    /\ unsubs = [c \in cs |-> <<>>]
    /\ transports = <<>>
    /\ ctasks = <<>>
    /\ dtasks = <<>>
    /\ calls = <<>>
    /\ last = NoStep

Init == InitWith({1})

\* ------------------------------------------------------------- connecting
\* for i in range(self._retries): another iteration after attempt i failed?
LoopContinues(i, n) == i + 1 < n

\* if not self._connected: raise NotConnectedError(...)
ConnectOutcome(conn) == IF conn THEN "ok" ELSE "NotConnectedError"

\* A reconnect that is never scheduled.
NotSpawned(c) == ctasks

\* asyncio.create_task(self._connect()): the coroutine is only scheduled.
Spawned(c) ==
    Append(ctasks, [c |-> c, pc |-> "new", i |-> 0, args |-> NoArgs,
                    by |-> "task"])

\* HTTPRequest(self._ws_url, **self._connect_args): the options an attempt
\* that starts now is made with.
RequestArgs(stored) == stored

\* The body of _connect up to its first suspension: with retries = 0 the
\* loop is skipped and the final test runs at once, otherwise attempt 0 is
\* started with the options stored right now.
Begin(c, by, tasks) ==
    IF retries[c] = 0
    THEN /\ ctasks' = tasks
         /\ last' = Step(by, c, "none", 0, NoPayload,
                         ConnectOutcome(connected[c]), 0)
    ELSE /\ ctasks' = Append(tasks, [c |-> c, pc |-> "await", i |-> 0,
                                     args |-> RequestArgs(connect_args'[c]),
                                     by |-> by])
         /\ last' = Step("begin", c, by, 0, NoPayload, "await", 0)

\* await client.connect(**kwargs)
Connect(c, kw) ==
    /\ Len(ctasks) < MaxConnTasks
    /\ connect_args' = [connect_args EXCEPT ![c] = kw]
    /\ Begin(c, "connect", ctasks)
    /\ UNCHANGED <<message, msg_id, auto_reconnect, retries, connected, ws, req,
                   listeners, unsubs, transports, dtasks, calls>>

\* A task made by create_task(self._connect()) runs for the first time.
TaskStart(k) ==
    /\ ctasks[k].pc = "new"
    /\ UNCHANGED connect_args
    /\ Begin(ctasks[k].c, "task", RemoveAt(ctasks, k))
    /\ UNCHANGED <<message, msg_id, auto_reconnect, retries, connected, ws, req,
                   listeners, unsubs, transports, dtasks, calls>>

\* websocket_connect returned a connection: lines 140-145, then 152.
AttemptSucceeds(k) ==
    LET task == ctasks[k]
        c == task.c
    IN  /\ task.pc = "await"
        /\ Len(transports) < MaxTransports
        /\ transports' = Append(transports, [c |-> c, st |-> "open"])
        /\ ws' = [ws EXCEPT ![c] = Len(transports')]
        /\ connected' = [connected EXCEPT ![c] = TRUE]
        /\ ctasks' = RemoveAt(ctasks, k)
        /\ last' = Step(task.by, c, "accepted", 0, task.args,
                        ConnectOutcome(connected'[c]), task.i + 1)
        /\ UNCHANGED <<message, msg_id, auto_reconnect, retries, connect_args, req,
                       listeners, unsubs, dtasks, calls>>

\* websocket_connect raised HTTPClientError: lines 146-150, then the next
\* iteration or, after the last one, the test of line 152.
AttemptFailsHttp(k) ==
    LET task == ctasks[k]
        c == task.c
    IN  /\ task.pc = "await"
        /\ IF LoopContinues(task.i, retries[c])
           THEN /\ ctasks' = [ctasks EXCEPT
                                ![k].i = task.i + 1,
                                ![k].args = RequestArgs(connect_args[c])]
                /\ last' = Step("retry", c, "HTTPClientError", 0, NoPayload,
                                "await", task.i + 1)
           ELSE /\ ctasks' = RemoveAt(ctasks, k)
                /\ last' = Step(task.by, c, "HTTPClientError", 0, NoPayload,
                                ConnectOutcome(connected[c]), task.i + 1)
        /\ UNCHANGED <<message, msg_id, auto_reconnect, retries, connected,
                       connect_args, ws, req, listeners, unsubs, transports,
                       dtasks, calls>>

\* websocket_connect raised something that is not an HTTPClientError (a
\* refused connection, a non-websocket response): no except clause matches,
\* the exception leaves _connect.
AttemptFailsOther(k) ==
    LET task == ctasks[k]
    IN  /\ task.pc = "await"
        /\ ctasks' = RemoveAt(ctasks, k)
        /\ last' = Step(task.by, task.c, "OtherError", 0, NoPayload,
                        "OtherError", task.i + 1)
        /\ UNCHANGED <<message, msg_id, auto_reconnect, retries, connected,
                       connect_args, ws, req, listeners, unsubs, transports,
                       dtasks, calls>>

\* WebSocketClientConnection.close() on a connection in state st: the
\* connection delivers its end of stream to on_message later.
Closed(st) == IF st = "open" THEN "closing" ELSE st

\* await client.disconnect()
Disconnect(c) ==
    /\ connected' = [connected EXCEPT ![c] = FALSE]
    /\ IF ws[c] = 0
       THEN /\ UNCHANGED transports
            /\ last' = Step("disconnect", c, "none", 0, NoPayload,
                            "AttributeError", 0)
       ELSE /\ transports' = [transports EXCEPT ![ws[c]].st = Closed(@)]
            /\ last' = Step("disconnect", c, "none", 0, NoPayload, "ok", 0)
    /\ UNCHANGED <<message, msg_id, auto_reconnect, retries, connect_args, ws, req,
                   listeners, unsubs, ctasks, dtasks, calls>>

\* ---------------------------------------------------------------- call()
\* A counter that is read and never advanced.
NextMsgIdStuck(n) == n

\* Client._next_msg_id: cls._msg_id += 1; return cls._msg_id
NextMsgId(n) == n + 1

\* A call() without the else branch of line 221.
FailsFastNever(conn, auto) == FALSE

\* Lines 217-222: call() raises NotConnectedError before doing anything.
FailsFast(conn, auto) == ~conn /\ ~auto

\* Lines 217-220: call() schedules a reconnect and goes on.
Reconnects(conn, auto) == ~conn /\ auto

\* self._ws.write_message(...) with self._ws = w.
WriteOutcome(w) ==
    IF w = 0 THEN "AttributeError"
    ELSE IF transports[w].st = "open" THEN "sent"
    ELSE "WebSocketClosedError"

\* await client.call(method, **kwargs), up to its first suspension.
Call(c) ==
    IF FailsFast(connected[c], auto_reconnect[c])
    THEN /\ last' = Step("call", c, "none", 0, NoPayload,
                         "NotConnectedError", 0)
         /\ UNCHANGED <<message, msg_id, auto_reconnect, retries, connected,
                        connect_args, ws, req, listeners, unsubs, transports,
                        ctasks, dtasks, calls>>
    ELSE LET id == NextMsgId(msg_id)
             out == WriteOutcome(ws[c])
         IN  /\ msg_id < MaxCalls
             /\ IF Reconnects(connected[c], auto_reconnect[c])
                THEN /\ Len(ctasks) < MaxConnTasks
                     /\ ctasks' = Spawned(c)
                ELSE UNCHANGED ctasks
             /\ msg_id' = id
             /\ req' = [req EXCEPT ![c] = @ \cup {id}]
             /\ calls' = Append(calls,
                    [c |-> c, id |-> id,
                     st |-> IF out = "sent" THEN "waiting" ELSE "raised",
                     val |-> NoPayload])
             /\ last' = Step("call", c, "none", id, NoPayload, out, 0)
             /\ UNCHANGED <<message, auto_reconnect, retries, connected,
                            connect_args, ws, listeners, unsubs, transports,
                            dtasks>>

\* ------------------------------------------------------------ on_message
\* A test that only asks whether anything is pending.
TrackedAny(pending, id) == pending # {}

\* if message["id"] in self._req
Tracked(pending, id) == id \in pending

\* A correlator that answers requests in the order they were made.
PoppedOldest(pending, id) == CHOOSE m \in pending : \A x \in pending : m <= x

\* fut = self._req.pop(message["id"]): the key whose future is taken.
Popped(pending, id) == id

\* What lines 192-203 do to the call whose future was taken; with an error
\* object that lacks data.traceback JsonRpcException.__init__ raises
\* KeyError and the future is left as it was.  A call() that raised while
\* sending does not await its future, whatever is set on it.
Resolved(call, kind, val) ==
    CASE call.st # "waiting" -> call
      [] kind = "error" -> [call EXCEPT !.st = "failed", !.val = val]
      [] kind = "result" -> [call EXCEPT !.st = "returned", !.val = val]
      [] kind = "noresult" -> [call EXCEPT !.st = "returned"]
      [] OTHER -> call

\* result = await fut (line 241): a call() is suspended on the future that
\* was stored under id.
Awaited(id) == id \in DOMAIN calls /\ calls[id].st = "waiting"

\* on_message(None): the connection is gone (lines 177-183).
OnMessageEmpty(c, t) ==
    /\ transports[t].c = c
    /\ transports[t].st # "closed"
    /\ transports' = [transports EXCEPT ![t].st = "closed"]
    /\ connected' = [connected EXCEPT ![c] = FALSE]
    /\ IF auto_reconnect[c]
       THEN /\ Len(ctasks) < MaxConnTasks
            /\ ctasks' = Spawned(c)
       ELSE UNCHANGED ctasks
    /\ last' = Step("on_message", c, "eos", 0, NoPayload, "disconnected", 0)
    /\ UNCHANGED <<message, msg_id, auto_reconnect, retries, connect_args, ws, req,
                   listeners, unsubs, dtasks, calls>>

\* on_message(data) for a frame with "jsonrpc" and "id" (lines 188-207).  Of
\* a reply nobody waits for, the code logs the id and nothing else.
OnReply(c, f) ==
    /\ f.kind \in ReplyKinds
    /\ IF Tracked(req[c], f.id)
       THEN LET id == Popped(req[c], f.id)
            IN  /\ req' = [req EXCEPT ![c] = @ \ {id}]
                /\ calls' = [calls EXCEPT ![id] = Resolved(@, f.kind, f.val)]
                /\ last' = Step("on_message", c, f.kind, f.id, f.val,
                                IF f.kind = "errbad" THEN "KeyError"
                                ELSE IF Awaited(id) THEN "resolved"
                                ELSE "unawaited", 0)
       ELSE /\ UNCHANGED <<req, calls>>
            /\ last' = Step("on_message", c, "reply", f.id, NoPayload,
                            "dropped", 0)
    /\ UNCHANGED <<message, msg_id, auto_reconnect, retries, connected, connect_args,
                   ws, listeners, unsubs, transports, ctasks, dtasks>>

\* An event frame that is read and starts nothing.
NotScheduled(c, ev, data) == dtasks

\* asyncio.create_task(self.dispatch(event, message)): the dispatch is only
\* scheduled, none of its code has run when on_message returns.
Scheduled(c, ev, data) ==
    Append(dtasks, [c |-> c, ev |-> ev, data |-> data, pc |-> "new",
                    res |-> "pending", subs |-> <<>>, coros |-> <<>>])

\* on_message(data) for an event frame (lines 210-212).
OnEventFrame(c, f) ==
    /\ f.kind = "event"
    /\ Len(dtasks) < MaxDispatch
    /\ dtasks' = Scheduled(c, f.ev, f.data)
    /\ last' = [Step("on_message", c, f.kind, 0, NoPayload, "scheduled", 0)
                    EXCEPT !.h = f.ev]
    /\ UNCHANGED <<message, msg_id, auto_reconnect, retries, connected, connect_args,
                   ws, req, listeners, unsubs, transports, ctasks, calls>>

\* on_message(data) for the other frames: json.loads raises on text that is
\* not JSON (line 187), the rest is logged (lines 209 and 214).
OnOtherFrame(c, f) ==
    /\ f.kind \in {"noid", "unknown", "unparsable"}
    /\ last' = Step("on_message", c, f.kind, 0, NoPayload,
                    IF f.kind = "unparsable" THEN "JSONDecodeError"
                    ELSE "logged", 0)
    /\ UNCHANGED <<message, msg_id, auto_reconnect, retries, connected, connect_args,
                   ws, req, listeners, unsubs, transports, ctasks, dtasks,
                   calls>>

\* A connection of client c that still delivers frames.
Delivers(c, t) == transports[t].c = c /\ transports[t].st # "closed"

\* on_message(data) for text that json.loads turns into the dict m.
OnMessage(c, m) ==
    \/ OnReply(c, FrameOf(m))
    \/ OnEventFrame(c, FrameOf(m))
    \/ OnOtherFrame(c, FrameOf(m))

\* ---------------------------------------------------------- subscriptions
\* client.on_event(event, handler) (lines 70-77); the closure it returns is
\* kept by the caller, who may invoke it at any later time, any number of
\* times.  `called` records that the caller has done so.
OnEvent(c, e, h) ==
    /\ Len(unsubs[c]) < MaxSubs
    /\ listeners' = [listeners EXCEPT ![c][e] = Append(@, h)]
    /\ unsubs' = [unsubs EXCEPT
                    ![c] = Append(@, [e |-> e, h |-> h, called |-> FALSE])]
    /\ last' = [Step("on_event", c, e, 0, NoPayload, "ok", Len(unsubs'[c]))
                    EXCEPT !.h = h]
    /\ UNCHANGED <<message, msg_id, auto_reconnect, retries, connected, connect_args,
                   ws, req, transports, ctasks, dtasks, calls>>

\* unsub(), the closure of the client's u-th subscription:
\* self._listeners[event].remove(handler), ValueError when the handler is
\* not in the list.
Unsub(c, u) ==
    LET e == unsubs[c][u].e
        h == unsubs[c][u].h
    IN  /\ IF h \in Range(listeners[c][e])
           THEN /\ listeners' = [listeners EXCEPT ![c][e] = ListRemove(@, h)]
                /\ last' = [Step("unsub", c, e, 0, NoPayload, "ok", u)
                                EXCEPT !.h = h]
           ELSE /\ UNCHANGED listeners
                /\ last' = [Step("unsub", c, e, 0, NoPayload, "ValueError",
                                 u) EXCEPT !.h = h]
        /\ unsubs' = [unsubs EXCEPT ![c][u].called = TRUE]
        /\ UNCHANGED <<message, msg_id, auto_reconnect, retries, connected,
                       connect_args, ws, req, transports, ctasks, dtasks,
                       calls>>

\* ---------------------------------------------------------------- dispatch
\* A fan-out over set(self._listeners[event]): a handler subscribed twice
\* gets one coroutine.
CoroutinesOfSet(ls) ==
    LET first == {j \in DOMAIN ls : \A i \in 1..(j - 1) : ls[i] # ls[j]}
    IN  [j \in 1..Cardinality(first) |->
            [h |-> ls[CHOOSE i \in first :
                        Cardinality({x \in first : x <= i}) = j],
             st |-> "pending"]]

\* [listener(**data) for listener in self._listeners[event]]: one coroutine
\* per entry of the list, in list order.
Coroutines(ls) == [j \in DOMAIN ls |-> [h |-> ls[j], st |-> "pending"]]

Finished(coros) == \A j \in DOMAIN coros : coros[j].st # "pending"

\* What gather hands to the awaiting dispatch when one of its coroutines
\* ends with `out`: the first exception at once, a result only when every
\* coroutine has ended.  The coroutines still pending are not cancelled.
Gathered(res, out) == IF out = "failed" THEN "failed" ELSE res

\* The dispatch task runs: lines 170-174 up to the await of gather.  The list
\* comprehension calls every listener in turn; `bad` is the first entry whose
\* call raises (a plain function that fails, or keyword arguments the
\* handler does not take), 0 when every call returns its coroutine.  When a
\* call raises the exception leaves dispatch: the entries after it are not
\* called and gather, which would have run the coroutines made before it, is
\* never reached.  Otherwise gather wraps every coroutine in a task.
DispatchStart(k, bad) ==
    LET d == dtasks[k]
        ls == listeners[d.c][d.ev]
        coros == Coroutines(ls)
    IN  /\ d.pc = "new"
        /\ bad <= Len(ls)
        /\ IF bad > 0
           THEN /\ dtasks' = RemoveAt(dtasks, k)
                /\ last' = [Step("dispatch", d.c, "none", 0, NoPayload,
                                 "raised", bad) EXCEPT !.h = d.ev]
           ELSE IF coros = <<>>
           THEN /\ dtasks' = RemoveAt(dtasks, k)
                /\ last' = [Step("dispatch", d.c, "none", 0, NoPayload,
                                 "done", 0) EXCEPT !.h = d.ev]
           ELSE /\ dtasks' = [dtasks EXCEPT ![k].pc = "running",
                                            ![k].subs = ls,
                                            ![k].coros = coros]
                /\ last' = [Step("dispatch", d.c, "none", 0, NoPayload,
                                 "gather", Len(coros)) EXCEPT !.h = d.ev]
        /\ UNCHANGED <<message, msg_id, auto_reconnect, retries, connected,
                       connect_args, ws, req, listeners, unsubs, transports,
                       ctasks, calls>>

\* One handler coroutine of a fan-out runs to its end: it returns or it
\* raises.  The record of the fan-out goes when every coroutine has ended.
HandlerRuns(k, j, out) ==
    LET d == dtasks[k]
        coros == [d.coros EXCEPT ![j].st = out]
    IN  /\ d.pc = "running"
        /\ j \in DOMAIN d.coros
        /\ d.coros[j].st = "pending"
        /\ dtasks' = IF Finished(coros) THEN RemoveAt(dtasks, k)
                     ELSE [dtasks EXCEPT ![k].coros = coros,
                                         ![k].res = Gathered(@, out)]
        /\ last' = [Step("handler", d.c, d.ev, 0, NoPayload, out, j)
                        EXCEPT !.h = d.coros[j].h]
        /\ UNCHANGED <<message, msg_id, auto_reconnect, retries, connected,
                       connect_args, ws, req, listeners, unsubs, transports,
                       ctasks, calls>>

\* ------------------------------------------------------------------ Next
\* Opening and closing connections.
NextConnection ==
    \/ \E c \in Clients, kw \in KwArgs : Connect(c, kw)
    \/ \E k \in DOMAIN ctasks : TaskStart(k)
    \/ \E k \in DOMAIN ctasks : AttemptSucceeds(k)
    \/ \E k \in DOMAIN ctasks : AttemptFailsHttp(k)
    \/ \E k \in DOMAIN ctasks : AttemptFailsOther(k)
    \/ \E c \in Clients : Disconnect(c)
    \/ \E c \in Clients, t \in DOMAIN transports : OnMessageEmpty(c, t)

\* Requests and the frames that answer them or answer nothing.
NextRequests ==
    \/ \E c \in Clients : Call(c)
    \/ \E c \in Clients, t \in DOMAIN transports, f \in Frames :
            Delivers(c, t) /\ OnReply(c, f)
    \/ \E c \in Clients, t \in DOMAIN transports, f \in Frames :
            Delivers(c, t) /\ OnOtherFrame(c, f)

\* The server pushes an event.
EventArrives ==
    \E c \in Clients, t \in DOMAIN transports, f \in Frames :
        Delivers(c, t) /\ OnEventFrame(c, f)

\* Subscriptions and the fan-out of the events that arrived.
NextFanOut ==
    \/ \E c \in Clients, e \in Events, h \in Handlers : OnEvent(c, e, h)
    \/ \E c \in Clients : \E u \in DOMAIN unsubs[c] : Unsub(c, u)
    \/ \E k \in DOMAIN dtasks, bad \in 0..MaxSubs : DispatchStart(k, bad)
    \/ \E k \in DOMAIN dtasks, j \in 1..MaxSubs, out \in {"done", "failed"} :
            HandlerRuns(k, j, out)

NextEvents == EventArrives \/ NextFanOut

Next == NextConnection \/ NextRequests \/ NextEvents

\* Connections and requests that nobody answers.
NextConn == NextConnection \/ \E c \in Clients : Call(c)

\* The state of a client made with the default arguments, Client(ws_url),
\* when the first attempt of its first connect() has been accepted, with a
\* server that sends one of ms.
InitConnectedTo(ms) ==
    /\ message \in ms
    /\ msg_id = 0
    /\ auto_reconnect = [c \in {1} |-> TRUE]
    /\ retries = [c \in {1} |-> DefaultRetries]
    /\ connected = [c \in {1} |-> TRUE]
    /\ connect_args \in [{1} -> KwArgs]
    /\ ws = [c \in {1} |-> 1]
    /\ req = [c \in {1} |-> {}]
    /\ listeners = [c \in {1} |-> [e \in Events |-> <<>>]]
    /\ unsubs = [c \in {1} |-> <<>>]
    /\ transports = <<[c |-> 1, st |-> "open"]>>
    /\ ctasks = <<>>
    /\ dtasks = <<>>
    /\ calls = <<>>
    /\ last = Step("connect", 1, "accepted", 0, connect_args[1], "ok", 1)

InitConnected == InitConnectedTo({EmptyDict})

\* Every operation of the client, in any interleaving.
Spec == Init /\ [][Next]_vars

\* The caller makes requests and subscribes to nothing, the server sends no
\* events.
SpecRpc == Init /\ [][NextConnection \/ NextRequests]_vars

\* Connections come and go, requests are made, the server answers nothing.
SpecConn == Init /\ [][NextConn]_vars

\* The same with two clients in one process.
SpecIds == InitWith({1, 2}) /\ [][NextConn]_vars

\* A connected client makes requests, the server replies in any order and
\* with any id.
SpecReplies == InitConnected /\ [][NextRequests]_vars

\* A connected client subscribes and unsubscribes; the server sends an event
\* when the fan-out of the one before has ended.
SpecEvents ==
    InitConnected /\ [][(dtasks = <<>> /\ EventArrives) \/ NextFanOut]_vars

\* The client of InitConnected after on_event(e, "h1") and on_event(e, "h2")
\* for every event e.
InitSubscribed ==
    /\ message = EmptyDict
    /\ msg_id = 0
    /\ auto_reconnect = [c \in {1} |-> TRUE]
    /\ retries = [c \in {1} |-> DefaultRetries]
    /\ connected = [c \in {1} |-> TRUE]
    /\ connect_args \in [{1} -> KwArgs]
    /\ ws = [c \in {1} |-> 1]
    /\ req = [c \in {1} |-> {}]
    /\ listeners = [c \in {1} |-> [e \in Events |-> <<"h1", "h2">>]]
    /\ \E e \in Events :
         /\ unsubs = [c \in {1} |-> <<[e |-> e, h |-> "h1", called |-> FALSE],
                                      [e |-> e, h |-> "h2", called |-> FALSE]>>]
         /\ last = [Step("on_event", 1, e, 0, NoPayload, "ok", 2)
                        EXCEPT !.h = "h2"]
    /\ transports = <<[c |-> 1, st |-> "open"]>>
    /\ ctasks = <<>>
    /\ dtasks = <<>>
    /\ calls = <<>>

\* Requests and their replies while events arrive and are dispatched to the
\* two handlers of a connected client.
NextOverlap ==
    \/ \E c \in Clients : Call(c)
    \/ \E c \in Clients, t \in DOMAIN transports, f \in Frames :
            Delivers(c, t) /\ OnReply(c, f)
    \/ EventArrives
    \/ \E k \in DOMAIN dtasks, bad \in 0..MaxSubs : DispatchStart(k, bad)
    \/ \E k \in DOMAIN dtasks, j \in 1..MaxSubs, out \in {"done", "failed"} :
            HandlerRuns(k, j, out)

SpecOverlap == InitSubscribed /\ [][NextOverlap]_vars

\* A connected client without subscriptions makes requests; what the server
\* sends, any number of times, is one JSON object, any there is.
NextCodec ==
    \/ \E c \in Clients : Call(c)
    \/ \E c \in Clients, t \in DOMAIN transports :
            Delivers(c, t) /\ OnMessage(c, message)
    \/ \E k \in DOMAIN dtasks, bad \in 0..MaxSubs : DispatchStart(k, bad)

SpecCodec == InitConnectedTo(Messages) /\ [][NextCodec]_vars

\* ================================================================ claims
ProgramState == <<msg_id, auto_reconnect, retries, connected, connect_args,
                  ws, req, listeners, unsubs, transports, ctasks, dtasks,
                  calls>>

\* The step just taken handed a reply to a call() that was waiting.
ResolvedStep == last'.op = "on_message" /\ last'.out = "resolved"

\* C1: a reply is matched to the call() whose id it carries, whatever the
\* order of arrival: the step that resolves a call changes exactly the call
\* with the reply's id, which was pending, and gives it the reply's result or
\* error; and no call changes in any other kind of step.
C1_MatchedById ==
    [][/\ ResolvedStep =>
            LET id == last'.id
            IN  /\ id \in req[last'.c]
                /\ calls[id].id = id
                /\ calls[id].c = last'.c
                /\ calls'[id].st =
                       (IF last'.kind = "error" THEN "failed" ELSE "returned")
                /\ calls'[id].val =
                       (IF last'.kind = "noresult" THEN NoPayload
                        ELSE last'.val)
                /\ \A j \in DOMAIN calls : j # id => calls'[j] = calls[j]
       /\ \A j \in DOMAIN calls :
            calls'[j] # calls[j] => ResolvedStep /\ last'.id = calls[j].id
      ]_vars

\* Two calls were outstanding and their replies came in reverse order, one
\* a result and one an error, with different payloads.
C1_Witness ==
    /\ Len(calls) >= 2
    /\ calls[2].st = "returned" /\ calls[2].val = "q"
    /\ calls[1].st = "failed" /\ calls[1].val = "p"
    /\ last.out = "resolved" /\ last.id = 1

\* The step just taken was a disconnection of client last.c.
Disconnection ==
    \/ last.op = "disconnect"
    \/ last.op = "on_message" /\ last.kind = "eos"

\* C2: once a disconnection has been processed, none of the client's calls
\* is still suspended on a reply and the id of no request that was sent is
\* left in the pending map.
C2_DisconnectFailsPending ==
    Disconnection =>
        \A j \in DOMAIN calls :
            calls[j].c = last.c =>
                /\ calls[j].st # "waiting"
                /\ calls[j].st # "raised" => calls[j].id \notin req[last.c]

\* C3: the ids issued in a process, in the order of issue and whichever
\* client asked, are strictly increasing.
C3_IdsIncrease ==
    \A j, k \in DOMAIN calls : j < k => calls[j].id < calls[k].id

\* Two clients have each been given an id.
C3_Witness ==
    \E j, k \in DOMAIN calls : j < k /\ calls[j].c = 2 /\ calls[k].c = 1

\* C4: a connect() whose attempts were all refused fails with the error of
\* line 153 and leaves the client Disconnected.
C4_ExhaustedConnectFails ==
    (last.op = "connect" /\ last.kind = "HTTPClientError") =>
        /\ last.n = retries[last.c]
        /\ last.out = "NotConnectedError"
        /\ ~connected[last.c]

\* C5: the end of stream of the connection that disconnect() has just
\* closed starts no connect task.
C5_DisconnectNoReconnect ==
    [][(/\ last.op = "disconnect"
        /\ last'.op = "on_message" /\ last'.kind = "eos"
        /\ \E t \in DOMAIN transports :
                transports[t].st = "closing" /\ transports'[t].st = "closed")
        => ctasks' = ctasks]_vars

\* C6: call() writes its request to a connection only while the client is
\* Connected.
C6_SendOnlyConnected ==
    (last.op = "call" /\ last.out = "sent") => connected[last.c]

\* C7: with auto-reconnect off, call() on a Disconnected client raises
\* NotConnectedError and changes nothing: no id is taken, nothing is
\* written, nothing is registered, no connect task is made.
C7_FailFast ==
    [][(/\ last'.op = "call"
        /\ ~connected[last'.c]
        /\ ~auto_reconnect[last'.c])
        => /\ last'.out = "NotConnectedError"
           /\ UNCHANGED ProgramState]_vars

\* The call was refused on a client that had been connected, while a
\* request made earlier is still pending.
C7_Witness ==
    /\ last.op = "call" /\ last.out = "NotConnectedError"
    /\ transports # <<>>
    /\ req[1] # {}

\* C8: an end of stream marks the client Disconnected; with auto-reconnect
\* it schedules one _connect task and returns, without it it schedules none;
\* the task makes its attempt with the stored options, and when an attempt
\* is accepted the client is Connected.
C8_Reconnect ==
    [][/\ (last'.op = "on_message" /\ last'.kind = "eos") =>
            /\ ~connected'[last'.c]
            /\ IF auto_reconnect[last'.c]
               THEN /\ Len(ctasks') = Len(ctasks) + 1
                    /\ \A k \in DOMAIN ctasks : ctasks'[k] = ctasks[k]
                    /\ ctasks'[Len(ctasks')].c = last'.c
                    /\ ctasks'[Len(ctasks')].pc = "new"
               ELSE ctasks' = ctasks
       /\ (last'.op = "begin" /\ last'.kind = "task") =>
            /\ ctasks'[Len(ctasks')].pc = "await"
            /\ ctasks'[Len(ctasks')].args = connect_args[last'.c]
       /\ last'.kind = "accepted" =>
            /\ connected'[last'.c]
            /\ transports'[ws'[last'.c]].st = "open"
      ]_vars

\* A client that made no call lost its connection and is Connected again,
\* by a task, with the options connect() had stored.
C8_Witness ==
    /\ calls = <<>>
    /\ last.op = "task" /\ last.kind = "accepted" /\ last.val = "kw"
    /\ connected[1]
    /\ \E t \in DOMAIN transports : transports[t].st = "closed"

C10_UnknownIdDropped ==
    [][(/\ last'.op = "on_message"
        /\ last'.kind \in ReplyKinds \cup {"reply"}
        /\ last'.id \notin req[last'.c])
        => /\ last'.out = "dropped"
           /\ UNCHANGED ProgramState]_vars

\* A reply for an id nobody waits for arrived while a call was waiting.
C10_Witness ==
    /\ last.op = "on_message" /\ last.out = "dropped"
    /\ \E j \in DOMAIN calls : calls[j].st = "waiting" /\ j \in req[1]

\* C11: a malformed frame (not JSON, JSON with neither "jsonrpc" nor "event",
\* a jsonrpc reply without an id) is logged and dropped: on_message raises
\* nothing and no call, handler, pending id or connection state changes.
C11_MalformedDropped ==
    [][(/\ last'.op = "on_message"
        /\ last'.kind \in {"unparsable", "unknown", "noid"})
        => /\ last'.out = "logged"
           /\ UNCHANGED ProgramState]_vars

\* C12: a handler that fails does not keep the other handlers of its fan-out
\* from being invoked and running to their end.  When a coroutine raises, the
\* other coroutines of that fan-out stay as they were and the failure is the
\* result of that dispatch alone: no other dispatch, no call and no part of
\* the connection changes.  When the call of one of several handlers raises,
\* the fan-out still holds a coroutine for every entry of the event's list.
C12_FailureConfined ==
    [][/\ (last'.op = "handler" /\ last'.out = "failed") =>
            /\ \E k \in DOMAIN dtasks :
                /\ dtasks[k].pc = "running"
                /\ last'.n \in DOMAIN dtasks[k].coros
                /\ LET after == [dtasks[k].coros EXCEPT
                                    ![last'.n].st = "failed"]
                   IN  dtasks' =
                         IF Finished(after) THEN RemoveAt(dtasks, k)
                         ELSE [dtasks EXCEPT ![k].coros = after,
                                             ![k].res = "failed"]
            /\ UNCHANGED <<connected, ws, req, calls, listeners, transports,
                           ctasks>>
       /\ (/\ last'.op = "dispatch" /\ last'.out = "raised"
           /\ \E j \in DOMAIN listeners[last'.c][last'.h] :
                    listeners[last'.c][last'.h][j] #
                        listeners[last'.c][last'.h][last'.n]) =>
            \E k \in DOMAIN dtasks' :
                /\ dtasks'[k].pc = "running"
                /\ dtasks'[k].c = last'.c
                /\ dtasks'[k].subs = listeners[last'.c][last'.h]
      ]_vars

\* The handlers of the subscriptions to event e that client c has made and
\* not cancelled through their own unsub, in the order they were made.
LiveHandlers(c, e) ==
    LET live == SelectSeq(unsubs[c], LAMBDA u : u.e = e /\ ~u.called)
    IN  [j \in DOMAIN live |-> live[j].h]

\* a can be had from b by leaving entries out.
RECURSIVE IsSubseq(_, _)
IsSubseq(a, b) ==
    IF a = <<>> THEN TRUE
    ELSE IF b = <<>> THEN FALSE
    ELSE IF Head(a) = Head(b) THEN IsSubseq(Tail(a), Tail(b))
    ELSE IsSubseq(a, Tail(b))

\* C13: the handlers of one publish are invoked in the order in which they
\* were subscribed, whatever subscribe and unsubscribe operations came
\* before: the fan-out that dispatch builds follows the order of the
\* subscriptions still in force.
C13_SubscriptionOrder ==
    [][(last'.op = "dispatch" /\ last'.out = "gather") =>
            \E k \in DOMAIN dtasks :
                /\ dtasks[k].pc = "new"
                /\ dtasks'[k].pc = "running"
                /\ IsSubseq([j \in DOMAIN dtasks'[k].coros |->
                                dtasks'[k].coros[j].h],
                            LiveHandlers(dtasks[k].c, dtasks[k].ev))
      ]_vars

\* C14: an id leaves the pending map only in the step that resolves the
\* call() waiting on it, with the reply's result or, for a reply that
\* carries an error, with a failure; and a waiting call stops waiting only
\* in the step that takes its id out of the map.
C14_ResolvedOnRemoval ==
    [][\A c \in Clients : \A j \in DOMAIN calls :
            /\ (/\ calls[j].c = c
                /\ calls[j].st = "waiting"
                /\ j \in req[c] \ req'[c]) =>
                    /\ calls'[j].st \in {"returned", "failed"}
                    /\ last'.kind \in {"error", "errbad"} =>
                            calls'[j].st = "failed"
            /\ (calls[j].c = c /\ calls'[j] # calls[j]) =>
                    /\ calls[j].st = "waiting"
                    /\ j \in req[c] \ req'[c]
      ]_vars

\* C15: a client never has more than one _connect in flight nor more than
\* one open connection delivering frames to its on_message.
C15_SingleConnection ==
    \A c \in Clients :
        /\ Cardinality({k \in DOMAIN ctasks : ctasks[k].c = c}) <= 1
        /\ Cardinality({t \in DOMAIN transports :
                            transports[t].c = c /\ transports[t].st = "open"})
                <= 1

\* C16: the dispatch of an event is scheduled, not run inside on_message:
\* whether or not a fan-out has handlers that have not ended, an event frame
\* adds a dispatch task of its own and a reply resolves its call, both
\* leaving the fan-outs in flight as they are, and a dispatch task that
\* starts leaves the fan-outs before it as they are.
C16_ReadPathNotBlocked ==
    [][/\ (last'.op = "on_message" /\ last'.kind = "event") =>
            /\ Len(dtasks') = Len(dtasks) + 1
            /\ \A k \in DOMAIN dtasks : dtasks'[k] = dtasks[k]
            /\ dtasks'[Len(dtasks')].pc = "new"
            /\ dtasks'[Len(dtasks')].ev = last'.h
       /\ ResolvedStep =>
            /\ calls[last'.id].st = "waiting"
            /\ calls'[last'.id].st \in {"returned", "failed"}
            /\ dtasks' = dtasks
       /\ (last'.op = "dispatch" /\ last'.out = "gather") =>
            /\ Len(dtasks') = Len(dtasks)
            /\ \A k \in DOMAIN dtasks :
                    dtasks[k].pc = "running" => dtasks'[k] = dtasks[k]
      ]_vars

\* A reply has just resolved a call while two fan-outs are in flight, the
\* second begun when no handler of the first had ended.
C16_Witness ==
    /\ last.op = "on_message" /\ last.out = "resolved"
    /\ calls[last.id].st = "returned"
    /\ Len(dtasks) = 2
    /\ dtasks[1].pc = "running" /\ dtasks[2].pc = "running"
    /\ \A j \in DOMAIN dtasks[1].coros : dtasks[1].coros[j].st = "pending"

\* The variant the codec is said to produce for a message.
ClaimedVariant(m) ==
    IF m.jsonrpc
    THEN IF m.error # "absent" THEN "Error"
         ELSE IF m.result = "absent" THEN "NullResponse"
         ELSE "Response"
    ELSE IF m.event # "none" THEN "Event"
    ELSE "Malformed"

\* C17: on_message treats every message as the variant its keys say: with
\* "jsonrpc" it is a reply and "error" goes before "result", an id with
\* neither gives a null result; without "jsonrpc" and with "event" it is an
\* event named by that field whose data is the rest of the fields; anything
\* else changes nothing.  A reply acts on the call waiting for its id.
C17_Classification ==
    [][last'.op = "on_message" =>
        LET m == message
            v == ClaimedVariant(m)
            waits == m.id \in req[1] /\ calls[m.id].st = "waiting"
        IN  /\ (v = "Error" /\ waits) =>
                /\ calls'[m.id].st # "returned"
                /\ m.error # "bare" =>
                        calls'[m.id].st = "failed" /\ calls'[m.id].val = m.error
                /\ dtasks' = dtasks
            /\ (v = "NullResponse" /\ waits) =>
                /\ calls'[m.id].st = "returned"
                /\ calls'[m.id].val = NoPayload
                /\ dtasks' = dtasks
            /\ (v = "Response" /\ waits) =>
                /\ calls'[m.id].st = "returned"
                /\ calls'[m.id].val = m.result
                /\ dtasks' = dtasks
            /\ (v \in {"Error", "NullResponse", "Response"} /\ ~waits) =>
                UNCHANGED ProgramState
            /\ v = "Event" =>
                /\ Len(dtasks') = Len(dtasks) + 1
                /\ dtasks'[Len(dtasks')].ev = m.event
                /\ dtasks'[Len(dtasks')].data = Keys(m) \ {"event"}
                /\ UNCHANGED <<req, calls>>
            /\ v = "Malformed" => UNCHANGED ProgramState
      ]_vars

\* A reply that has both "error" and "result" has failed the call that
\* waited for its id, with the error.
C17_Witness ==
    /\ message.jsonrpc /\ message.error = "p" /\ message.result = "q"
    /\ last.op = "on_message" /\ last.id = message.id
    /\ message.id \in DOMAIN calls
    /\ calls[message.id].st = "failed" /\ calls[message.id].val = "p"

\* C18: every id in the pending map is the id of a call() of that client
\* that is suspended on its reply; a call() that raised while sending has
\* left nothing in the map.
C18_PendingAreWaiting ==
    \A c \in Clients : \A id \in req[c] :
        /\ id \in DOMAIN calls
        /\ calls[id].c = c
        /\ calls[id].st = "waiting"

\* C19: a client is Connected exactly when the connection self._ws refers to
\* is open; and an attempt that was in flight when disconnect() ran and is
\* accepted right after it does not make the client Connected.
C19_ConnectedIffOpen ==
    /\ [](\A c \in Clients :
            connected[c] <=> (ws[c] # 0 /\ transports[ws[c]].st = "open"))
    /\ [][(/\ last.op = "disconnect"
            /\ last'.kind = "accepted"
            /\ last'.c = last.c) => ~connected'[last'.c]]_vars

\* C20: an unsub removes the subscription that made it and no other, and
\* does nothing and raises nothing when invoked again: the list of every
\* event holds the handlers of the subscriptions whose unsub has not been
\* invoked, in the order they were made, and no unsub fails.
C20_UnsubExact ==
    /\ \A c \in Clients : \A e \in Events :
            listeners[c][e] = LiveHandlers(c, e)
    /\ last.op = "unsub" => last.out = "ok"

====
